---- MODULE Spec2Model ----
(***************************************************************************)
(* Model of the multi-axis vector-potential reconstruction core of         *)
(* multi_axis.py: rotation_matrix, get_astravec, generate_vectors,         *)
(* calculate_A_contributions, weight_phases, update_weighted_proj_data,    *)
(* recon_step, generate_reconstruction, generate_A_projection_fast and     *)
(* iterative_update_algorithm.                                             *)
(*                                                                         *)
(* Numbers.  Python floats are modelled as exact rationals <<n, d>> in     *)
(* lowest terms with d > 0; the pair <<1, 0>> stands for any non-finite    *)
(* float (inf, -inf or nan), which numpy produces when an array is divided *)
(* by zero.  Angles are degrees; the trigonometric table covers 0 and the  *)
(* angles of the 3-4-5 triangle, 53 standing for arctan(4/3) and 37 for    *)
(* arctan(3/4), whose sines and cosines are rational.                      *)
(*                                                                         *)
(* Stacks.  A projection stack of shape (rows, tilt, cols) is the record   *)
(* [rows, cols, sl, src]: sl[i] is the value of the central pixel of tilt  *)
(* slice i (every transform of the program acts pixel by pixel), and src   *)
(* is the set of <<component, major iteration>> volumes it was computed    *)
(* from.                                                                   *)
(***************************************************************************)
EXTENDS Integers, Sequences, FiniteSets, TLC

\* ------------------------------------------------------------------ bounds
MaxFullIter == 3
MaxPad == 1
MaxSide == 3
MaxTilt == 8
MaxDist == 3

\* ------------------------------------------------------- float arithmetic
RECURSIVE GCD(_, _)
GCD(a, b) == IF b = 0 THEN a ELSE GCD(b, a % b)

AbsInt(n) == IF n < 0 THEN -n ELSE n

NonFinite == <<1, 0>>

IsFinite(a) == a[2] # 0

Frac(n, d) ==
    IF d = 0 THEN NonFinite
    ELSE LET g == GCD(AbsInt(n), AbsInt(d))
             s == IF d < 0 THEN -1 ELSE 1
         IN  <<(s * n) \div g, (s * d) \div g>>

R(n) == <<n, 1>>

FAdd(a, b) ==
    IF IsFinite(a) /\ IsFinite(b)
    THEN Frac(a[1] * b[2] + b[1] * a[2], a[2] * b[2]) ELSE NonFinite

FNeg(a) == IF IsFinite(a) THEN <<-a[1], a[2]>> ELSE NonFinite

FSub(a, b) == FAdd(a, FNeg(b))

FMul(a, b) ==
    IF IsFinite(a) /\ IsFinite(b)
    THEN Frac(a[1] * b[1], a[2] * b[2]) ELSE NonFinite

\* a / b; a zero divisor gives a non-finite value (numpy array division)
FDiv(a, b) ==
    IF IsFinite(a) /\ IsFinite(b)
    THEN Frac(a[1] * b[2], a[2] * b[1]) ELSE NonFinite

FAbs(a) == IF IsFinite(a) THEN <<AbsInt(a[1]), a[2]>> ELSE NonFinite

\* a >= b
FGeq(a, b) == IsFinite(a) /\ IsFinite(b) /\ a[1] * b[2] >= b[1] * a[2]

\* a > b; every comparison with a non-finite value (nan) is false
FGt(a, b) == IsFinite(a) /\ IsFinite(b) /\ a[1] * b[2] > b[1] * a[2]

FLeq(a, b) == IsFinite(a) /\ IsFinite(b) /\ a[1] * b[2] <= b[1] * a[2]

\* ------------------------------------------------------------- rotations
Cos(deg) ==
    CASE deg = 0 -> R(1)
      [] deg = 53 \/ deg = -53 -> Frac(3, 5)
      [] deg = 37 \/ deg = -37 -> Frac(4, 5)

Sin(deg) ==
    CASE deg = 0 -> R(0)
      [] deg = 53 -> Frac(4, 5)
      [] deg = -53 -> Frac(-4, 5)
      [] deg = 37 -> Frac(3, 5)
      [] deg = -37 -> Frac(-3, 5)

Dot(u, v) == FAdd(FAdd(FMul(u[1], v[1]), FMul(u[2], v[2])), FMul(u[3], v[3]))

MatCol(M, j) == <<M[1][j], M[2][j], M[3][j]>>

MatRow(a, B) == <<Dot(a, MatCol(B, 1)), Dot(a, MatCol(B, 2)), Dot(a, MatCol(B, 3))>>

MatMul(A, B) == <<MatRow(A[1], B), MatRow(A[2], B), MatRow(A[3], B)>>

MatVec(M, v) == <<Dot(M[1], v), Dot(M[2], v), Dot(M[3], v)>>

\* rotation_matrix with mroty = [[Cy,0,Sy],[0,1,0],[Sy,0,Cy]]
rotation_matrixSheared(ax, ay, az, intrinsic) ==
    LET Cx == Cos(ax)
        Sx == Sin(ax)
        mrotx == << <<R(1), R(0), R(0)>>, <<R(0), Cx, FNeg(Sx)>>, <<R(0), Sx, Cx>> >>
        Cy == Cos(ay)
        Sy == Sin(ay)
        mroty == << <<Cy, R(0), Sy>>, <<R(0), R(1), R(0)>>, <<Sy, R(0), Cy>> >>
        Cz == Cos(az)
        Sz == Sin(az)
        mrotz == << <<Cz, FNeg(Sz), R(0)>>, <<Sz, Cz, R(0)>>, <<R(0), R(0), R(1)>> >>
    IN  IF intrinsic
        THEN MatMul(MatMul(mrotz, mroty), mrotx)
        ELSE MatMul(MatMul(mrotx, mroty), mrotz)

rotation_matrix(ax, ay, az, intrinsic) ==
    LET Cx == Cos(ax)
        Sx == Sin(ax)
        mrotx == << <<R(1), R(0), R(0)>>, <<R(0), Cx, FNeg(Sx)>>, <<R(0), Sx, Cx>> >>
        Cy == Cos(ay)
        Sy == Sin(ay)
        mroty == << <<Cy, R(0), Sy>>, <<R(0), R(1), R(0)>>, <<FNeg(Sy), R(0), Cy>> >>
        Cz == Cos(az)
        Sz == Sin(az)
        mrotz == << <<Cz, FNeg(Sz), R(0)>>, <<Sz, Cz, R(0)>>, <<R(0), R(0), R(1)>> >>
    IN  IF intrinsic
        THEN MatMul(MatMul(mrotz, mroty), mrotx)
        ELSE MatMul(MatMul(mrotx, mroty), mrotz)

get_astravec(ax, ay, az) ==
    LET nay == -ay
        d == <<R(0), R(0), R(0)>>
        mrot == rotation_matrix(ax, nay, az, FALSE)
        r0 == MatVec(mrot, <<R(0), R(0), R(1)>>)
        r == <<FMul(r0[1], R(-1)), FMul(r0[2], R(-1)), FMul(r0[3], R(-1))>>
        u == MatVec(mrot, <<R(1), R(0), R(0)>>)
        v == MatVec(mrot, <<R(0), R(1), R(0)>>)
    IN  r \o d \o u \o v

\* "for [ax,ay,az] in angles: vectors.append(get_astravec(ax,ay,az))"
RECURSIVE VectorLoop(_, _)
VectorLoop(angs, i) ==
    IF i > Len(angs) THEN <<>>
    ELSE <<get_astravec(angs[i][1], angs[i][2], angs[i][3])>> \o VectorLoop(angs, i + 1)

generate_vectors(angs) == VectorLoop(angs, 1)

\* the weight triple from the rotation matrix in its extrinsic order
ContributionExtrinsic(a) ==
    LET mrot == rotation_matrix(a[1], a[2], a[3], FALSE)
        nx == MatVec(mrot, <<R(1), R(0), R(0)>>)
        ny == MatVec(mrot, <<R(0), R(1), R(0)>>)
        nz == MatVec(mrot, <<R(0), R(0), R(1)>>)
        beam == <<R(0), R(0), R(1)>>
    IN  <<Dot(nx, beam), Dot(ny, beam), Dot(nz, beam)>>

\* the weight triple appended for one angle a
Contribution(a) ==
    LET mrot == rotation_matrix(a[1], a[2], a[3], TRUE)
        nx == MatVec(mrot, <<R(1), R(0), R(0)>>)
        ny == MatVec(mrot, <<R(0), R(1), R(0)>>)
        nz == MatVec(mrot, <<R(0), R(0), R(1)>>)
        beam == <<R(0), R(0), R(1)>>
    IN  <<Dot(nx, beam), Dot(ny, beam), Dot(nz, beam)>>

\* "for i, a in enumerate(angles): ... ws.append([nx,ny,nz])"
RECURSIVE ContributionLoop(_, _)
ContributionLoop(angs, i) ==
    IF i > Len(angs) THEN <<>>
    ELSE <<Contribution(angs[i])>> \o ContributionLoop(angs, i + 1)

calculate_A_contributions(angs) == ContributionLoop(angs, 1)

\* ws[:, c]
RECURSIVE ColLoop(_, _, _)
ColLoop(w, c, i) ==
    IF i > Len(w) THEN <<>> ELSE <<w[i][c]>> \o ColLoop(w, c, i + 1)

WCol(w, c) == ColLoop(w, c, 1)

\* 1 / ws[:, c]
RECURSIVE InvLoop(_, _)
InvLoop(w, i) ==
    IF i > Len(w) THEN <<>> ELSE <<FDiv(R(1), w[i])>> \o InvLoop(w, i + 1)

WInv(w) == InvLoop(w, 1)

\* ---------------------------------------------------------------- stacks
Stack(rows, cols, sl, src) == [rows |-> rows, cols |-> cols, sl |-> sl, src |-> src]

\* np.zeros_like(projs)
RECURSIVE Fill(_, _)
Fill(n, v) == IF n = 0 THEN <<>> ELSE <<v>> \o Fill(n - 1, v)

OnesLike(projs) == Stack(projs.rows, projs.cols, Fill(Len(projs.sl), R(1)), {})

ZerosLike(projs) == Stack(projs.rows, projs.cols, Fill(Len(projs.sl), R(0)), {})

\* numpy broadcasting of one axis: equal lengths, or one of them is 1
BroadcastOk(a, b) == a = b \/ a = 1 \/ b = 1

BroadcastLen(a, b) == IF a = 1 THEN b ELSE a

ShapesOk(p, q) ==
    /\ BroadcastOk(p.rows, q.rows)
    /\ BroadcastOk(p.cols, q.cols)
    /\ Len(p.sl) = Len(q.sl)

\* p - q, pixel by pixel
RECURSIVE SubLoop(_, _, _)
SubLoop(a, b, i) ==
    IF i > Len(a) THEN <<>> ELSE <<FSub(a[i], b[i])>> \o SubLoop(a, b, i + 1)

StackSub(p, q) ==
    Stack(BroadcastLen(p.rows, q.rows), BroadcastLen(p.cols, q.cols),
          SubLoop(p.sl, q.sl, 1), p.src \cup q.src)

\* mag. flux quantum, in units in which it is 1
Phi0 == 1

Pi == Frac(22, 7)

const == FDiv(FDiv(FNeg(Pi), R(Phi0)), FMul(R(2), Pi))

\* phase_projs*1/const
\* a*num/den, pixel by pixel
RECURSIVE ScaleLoop(_, _, _, _)
ScaleLoop(a, num, den, i) ==
    IF i > Len(a) THEN <<>>
    ELSE <<FDiv(FMul(a[i], num), den)>> \o ScaleLoop(a, num, den, i + 1)

Unscale(projs) == [projs EXCEPT !.sl = ScaleLoop(@, R(1), const, 1)]

\* "for i, w in enumerate(ws): p = projs[:,i,:]; new_ps.append(p*w)"
RECURSIVE WeightLoop(_, _, _)
WeightLoop(sl, w, i) ==
    IF i > Len(w) THEN <<>> ELSE <<FMul(sl[i], w[i])>> \o WeightLoop(sl, w, i + 1)

\* the loop of weight_phases pairs slice i with weight i
RECURSIVE WeightLoopReversed(_, _, _)
WeightLoopReversed(sl, w, i) ==
    IF i > Len(w) THEN <<>>
    ELSE <<FMul(sl[Len(w) + 1 - i], w[i])>> \o WeightLoopReversed(sl, w, i + 1)

weight_phasesReversed(projs, w) ==
    Stack(projs.rows, projs.cols, WeightLoopReversed(projs.sl, w, 1), projs.src)

weight_phases(projs, w) ==
    Stack(projs.rows, projs.cols, WeightLoop(projs.sl, w, 1), projs.src)

update_weighted_proj_dataSlip(phase_projs, a_weighted_x, a_weighted_y, a_weighted_z, ws) ==
    LET new_x == StackSub(StackSub(Unscale(phase_projs),
                                   weight_phases(a_weighted_y, WCol(ws, 2))),
                          weight_phases(a_weighted_z, WCol(ws, 3)))
        new_y == StackSub(StackSub(Unscale(phase_projs),
                                   weight_phases(a_weighted_x, WCol(ws, 1))),
                          weight_phases(a_weighted_z, WCol(ws, 3)))
        new_z == StackSub(StackSub(Unscale(phase_projs),
                                   weight_phases(a_weighted_y, WCol(ws, 1))),
                          weight_phases(a_weighted_x, WCol(ws, 1)))
    IN  << weight_phases(new_x, WInv(WCol(ws, 1))),
           weight_phases(new_y, WInv(WCol(ws, 2))),
           weight_phases(new_z, WInv(WCol(ws, 3))) >>

update_weighted_proj_data(phase_projs, a_weighted_x, a_weighted_y, a_weighted_z, ws) ==
    LET new_x == StackSub(StackSub(Unscale(phase_projs),
                                   weight_phases(a_weighted_y, WCol(ws, 2))),
                          weight_phases(a_weighted_z, WCol(ws, 3)))
        new_y == StackSub(StackSub(Unscale(phase_projs),
                                   weight_phases(a_weighted_x, WCol(ws, 1))),
                          weight_phases(a_weighted_z, WCol(ws, 3)))
        new_z == StackSub(StackSub(Unscale(phase_projs),
                                   weight_phases(a_weighted_y, WCol(ws, 2))),
                          weight_phases(a_weighted_x, WCol(ws, 1)))
    IN  << weight_phases(new_x, WInv(WCol(ws, 1))),
           weight_phases(new_y, WInv(WCol(ws, 2))),
           weight_phases(new_z, WInv(WCol(ws, 3))) >>

\* the subtractions of update_weighted_proj_data raise ValueError when the
\* operand shapes cannot be broadcast together
UpdateRaises(phase_projs, a_weighted_x, a_weighted_y, a_weighted_z) ==
    \/ ~ShapesOk(phase_projs, a_weighted_x)
    \/ ~ShapesOk(phase_projs, a_weighted_y)
    \/ ~ShapesOk(phase_projs, a_weighted_z)

\* np.pad(a, [(n, n), (0, 0), (n, n)])
Pad(projs, n) == [projs EXCEPT !.rows = @ + 2 * n, !.cols = @ + 2 * n]

\* length of a[n:-n] for an axis of length len
SliceLen(len, n) ==
    IF n = 0 THEN 0 ELSE IF len - 2 * n > 0 THEN len - 2 * n ELSE 0

\* np.linspace(tmin, tmax, num)
RECURSIVE LinLoop(_, _, _, _)
LinLoop(tmin, tmax, num, j) ==
    IF j > num THEN <<>>
    ELSE << IF num = 1 THEN tmin
            ELSE IF j = num THEN tmax
            ELSE FAdd(tmin, FMul(R(j - 1), FDiv(FSub(tmax, tmin), R(num - 1)))) >>
         \o LinLoop(tmin, tmax, num, j + 1)

linspace(tmin, tmax, num) == LinLoop(tmin, tmax, num, 1)

\* ----------------------------------------------------------------- state
VARIABLES
    phase_projs,   \* the raw phase stack handed to iterative_update_algorithm
    angles,        \* the angle scheme, a sequence of rotation triples
    mesh_params,   \* <<p1, p2, nn>>
    n_pad,         \* padding margin in voxels
    n_full_iter,   \* number of major iterations asked for
    thresh_range,  \* <<tmin, tmax>>
    ws,            \* weight triples, one per angle
    possible_ts,   \* threshold schedule
    thresh,        \* active threshold
    a_weighted,    \* <<a_weighted_x, a_weighted_y, a_weighted_z>>
    A_recon,       \* <<Ax_recon, Ay_recon, Az_recon>>
    iter,          \* major iteration being executed (0 is the first step)
    comp,          \* component (1 = x, 2 = y, 3 = z) the current step works on
    pc,            \* position in iterative_update_algorithm and its callees
    sel,           \* locals of recon_step: res, a_thresh, angles_thresh, vecs
    sub,           \* the three sub-volumes handed to generate_A_projection_fast
    recon,         \* volume handed back by generate_reconstruction
    projections,   \* <<projectionsx, projectionsy, projectionsz>>
    live,          \* backend objects allocated and not yet released
    err,           \* exception that ended the run, "none" otherwise
    log            \* history of the calls made so far

vars == <<phase_projs, angles, mesh_params, n_pad, n_full_iter, thresh_range,
          ws, possible_ts, thresh, a_weighted, A_recon, iter, comp, pc, sel,
          sub, recon, projections, live, err, log>>

inputs == <<phase_projs, angles, mesh_params, n_pad, n_full_iter, thresh_range>>

\* ---------------------------------------------------------------- inputs
AngleSchemes ==
    { << <<53, 0, 0>>, <<0, 53, 0>>, <<0, 0, 0>> >>,
      << <<53, -37, 0>>, <<-37, 53, 37>> >>,
      << <<-53, 0, 0>>, <<53, 0, 0>> >>,
      << <<0, 37, 0>>, <<37, 53, 53>>, <<0, -53, 0>> >>,
      << <<53, 0, 37>>, <<-37, 0, 53>> >> }

PhaseVals == {R(0), R(1)}

ThreshRanges ==
    { <<Frac(1, 100), Frac(7, 10)>>,
      <<R(0), Frac(3, 5)>>,
      <<Frac(1, 2), Frac(1, 5)>>,
      <<R(0), R(0)>> }

Meshes ==
    { << <<0, 0, 0>>, <<2, 2, 2>>, <<1, 1, 1>> >>,
      << <<1, 1, 1>>, <<3, 3, 3>>, <<2, 2, 2>> >>,
      << <<0, 0, 0>>, <<1, 1, 1>>, <<0, 0, 0>> >> }

\* value of the central voxel / pixel of what the backend hands back
BackendVals == {R(1)}

NoVolume == [shape |-> <<0, 0, 0>>, comp |-> 0, gen |-> -1, src |-> {}, val |-> R(0)]

NoSel == [res |-> R(0), a_thresh |-> Stack(0, 0, <<>>, {}), angles_thresh |-> <<>>,
          vecs |-> <<>>]

NoStack == Stack(0, 0, <<>>, {})

Event(op, m, c, t, src) == [op |-> op, m |-> m, c |-> c, t |-> t, src |-> src]

Init ==
    /\ \E side \in 2..MaxSide, scheme \in AngleSchemes, v \in PhaseVals :
          /\ angles = scheme
          /\ phase_projs = Stack(side, side,
                                 <<v>> \o Fill(Len(scheme) - 1, R(1)), {})
    /\ mesh_params \in Meshes
    /\ n_pad \in 0..MaxPad
    /\ n_full_iter \in 1..MaxFullIter
    /\ thresh_range \in ThreshRanges
    /\ ws = <<>>
    /\ possible_ts = <<>>
    /\ thresh = R(0)
    /\ a_weighted = <<NoStack, NoStack, NoStack>>
    /\ A_recon = <<NoVolume, NoVolume, NoVolume>>
    /\ iter = 0
    /\ comp = 0
    /\ pc = "start"
    /\ sel = NoSel
    /\ sub = <<NoVolume, NoVolume, NoVolume>>
    /\ recon = NoVolume
    /\ projections = <<NoStack, NoStack, NoStack>>
    /\ live = {}
    /\ err = "none"
    /\ log = <<>>

\* ------------------------------------------------------------ recon_step
\* the loop "for i, w in enumerate(ws): if abs(w) > thresh: ...append(...)"
RECURSIVE ThreshLoop(_, _, _, _)
ThreshLoop(items, w, t, i) ==
    IF i > Len(w) THEN <<>>
    ELSE (IF FGt(FAbs(w[i]), t) THEN <<items[i]>> ELSE <<>>)
            \o ThreshLoop(items, w, t, i + 1)

\* a_thresh holding every slice of a_projs
ThreshDataAll(a_projs, w, t) == a_projs

\* a_thresh after the loop and the transpose back to (rows, tilt, cols)
ThreshData(a_projs, w, t) ==
    Stack(a_projs.rows, a_projs.cols, ThreshLoop(a_projs.sl, w, t, 1), a_projs.src)

\* angles_thresh after the loop
ThreshAnglesAll(angs, w, t) == angs

ThreshAngles(angs, w, t) == ThreshLoop(angs, w, t, 1)

\* np.transpose(a_thresh, axes=[1,0,2]) needs a 3-D array: a list of no
\* slices is 1-D and the call raises ValueError
TransposeAccepts(slices) == FALSE

TransposeRaises(slices) == Len(slices) = 0

\* res = p2[0]/nn[0] on Python numbers raises ZeroDivisionError for nn[0] = 0
ResRaises(mesh) == mesh[3][1] = 0

Resolution(mesh) == Frac(mesh[2][1], mesh[3][1])

\* which of Ax_recon, Ay_recon, Az_recon receives the result of the c-th
\* recon_step of a major iteration
ReconTarget(c) == c

Reverse3(shape) == <<shape[3], shape[2], shape[1]>>

\* the stack passed as a_projs to the c-th recon_step of a major iteration
ReconInputFresh(c) ==
    LET P(k) == Pad(Stack(SliceLen(A_recon[k].shape[1], n_pad),
                          SliceLen(A_recon[k].shape[1], n_pad),
                          Fill(Len(angles), R(1)), {<<A_recon[k].comp, A_recon[k].gen>>}),
                    n_pad)
    IN  IF iter >= 1 /\ c > 1
        THEN update_weighted_proj_data(phase_projs, P(1), P(2), P(3), ws)[c]
        ELSE a_weighted[c]

ReconInput(c) == a_weighted[c]

\* shape of the volume created by create_vol_geom(shape[0], shape[0], shape[2])
VolShapeTilt(data) == <<data.cols, Len(data.sl), data.rows>>

VolShape(data) == <<data.cols, data.rows, data.rows>>

Handle(kind, op) == [kind |-> kind, op |-> op, m |-> iter, c |-> comp]

\* an exception raised by recon_step or by the forward projection is caught
\* nowhere: it ends iterative_update_algorithm and is handed to the caller
RaiseAndRetry(e) ==
    /\ err' = e
    /\ pc' = pc

Raise(e) ==
    /\ err' = e
    /\ pc' = "error"

\* iterative_update_algorithm up to its first recon_step call
Initialise ==
    /\ pc = "start"
    /\ ws' = calculate_A_contributions(angles)
    /\ LET z == ZerosLike(phase_projs)
       IN  a_weighted' = update_weighted_proj_data(phase_projs, z, z, z, ws')
    /\ possible_ts' = linspace(thresh_range[1], thresh_range[2], n_full_iter - 1)
    /\ thresh' = thresh_range[2]
    /\ iter' = 0
    /\ comp' = 1
    /\ log' = Append(log, Event("decon", 0, 0, thresh_range[2], {}))
    /\ pc' = "recon_step"
    /\ UNCHANGED <<inputs, A_recon, sel, sub, recon, projections, live, err>>

\* recon_step from its entry to the generate_reconstruction call
ReconStep ==
    /\ pc = "recon_step"
    /\ log' = Append(log, Event("recon_step", iter, comp, thresh, ReconInput(comp).src))
    /\ LET w == WCol(ws, comp)
           data == ThreshData(ReconInput(comp), w, thresh)
           angs == ThreshAngles(angles, w, thresh)
       IN  IF ResRaises(mesh_params)
           THEN Raise("ZeroDivisionError") /\ UNCHANGED sel
           ELSE IF TransposeRaises(data.sl)
           THEN Raise("ValueError") /\ UNCHANGED sel
           ELSE /\ sel' = [res |-> Resolution(mesh_params), a_thresh |-> data,
                           angles_thresh |-> angs, vecs |-> generate_vectors(angs)]
                /\ pc' = "gr_alloc"
                /\ UNCHANGED err
    /\ UNCHANGED <<inputs, ws, possible_ts, thresh, a_weighted, A_recon, iter, comp,
                   sub, recon, projections, live>>

\* generate_reconstruction: load the data objects into the backend
GRAlloc ==
    /\ pc = "gr_alloc"
    /\ live' = live \cup {Handle("proj", "reconstruct"), Handle("vol", "reconstruct"),
                          Handle("alg", "reconstruct")}
    /\ pc' = "gr_run"
    /\ UNCHANGED <<inputs, ws, possible_ts, thresh, a_weighted, A_recon, iter, comp,
                   sel, sub, recon, projections, err, log>>

\* generate_reconstruction: astra.algorithm.run and astra.data3d.get
GRRun ==
    /\ pc = "gr_run"
    /\ log' = Append(log, Event("reconstruct", iter, comp, thresh, sel.a_thresh.src))
    /\ \/ \E v \in BackendVals :
            /\ recon' = [shape |-> VolShape(sel.a_thresh),
                         comp |-> comp, gen |-> iter, src |-> sel.a_thresh.src, val |-> v]
            /\ pc' = "recon_finish"
            /\ UNCHANGED err
       \/ Raise("BackendError") /\ UNCHANGED recon
    /\ UNCHANGED <<inputs, ws, possible_ts, thresh, a_weighted, A_recon, iter, comp,
                   sel, sub, projections, live>>

\* recon_step after generate_reconstruction returned, and the assignment of
\* its result in iterative_update_algorithm
ReconFinish ==
    /\ pc = "recon_finish"
    /\ A_recon' = [A_recon EXCEPT ![ReconTarget(comp)] =
                      [recon EXCEPT !.shape = Reverse3(@), !.val = FDiv(@, sel.res)]]
    /\ live' = {}
    /\ IF comp < 3
       THEN comp' = comp + 1 /\ pc' = "recon_step"
       ELSE comp' = 0 /\ pc' = IF iter = 0 THEN "loop_head" ELSE "loop_tail"
    /\ recon' = NoVolume
    /\ sel' = NoSel
    /\ UNCHANGED <<inputs, ws, possible_ts, thresh, a_weighted, iter, sub,
                   projections, err, log>>

\* ------------------------------------------- the loop over major iterations
\* V[n:-n, n:-n, n:-n]
Crop(vol, n) ==
    [vol EXCEPT !.shape = <<SliceLen(@[1], n), SliceLen(@[2], n), SliceLen(@[3], n)>>]

\* possible_ts[-(i+1)]
ScheduleAtForward(ts, i) == ts[i + 1]

ScheduleAt(ts, i) == ts[Len(ts) - i]

\* "for i in range(n_full_iter-1)": is there a pass with index i
LoopContinuesShort(i, n) == i < n - 2

LoopContinues(i, n) == i < n - 1

\* head of "for i in range(n_full_iter-1)" with i = iter, up to the call of
\* generate_A_projection_fast
LoopHead ==
    /\ pc = "loop_head"
    /\ LoopContinues(iter, n_full_iter)
    /\ thresh' = ScheduleAt(possible_ts, iter)
    /\ sub' = <<Crop(A_recon[1], n_pad), Crop(A_recon[2], n_pad), Crop(A_recon[3], n_pad)>>
    /\ iter' = iter + 1
    /\ comp' = 1
    /\ pc' = "fp_alloc"
    /\ UNCHANGED <<inputs, ws, possible_ts, a_weighted, A_recon, sel, recon,
                   projections, live, err, log>>

\* generate_A_projection_fast: volume geometry, reorientation and
\* astra.data3d.create for one component
FPAlloc ==
    /\ pc = "fp_alloc"
    /\ LET s == sub[1].shape[1]
       IN  IF Reverse3(sub[comp].shape) = <<s, s, s>>
           THEN /\ live' = live \cup {Handle("vol", "forward_project")}
                /\ pc' = "fp_run"
                /\ UNCHANGED err
           ELSE Raise("BackendError") /\ UNCHANGED live
    /\ UNCHANGED <<inputs, ws, possible_ts, thresh, a_weighted, A_recon, iter, comp,
                   sel, sub, recon, projections, log>>

\* generate_A_projection_fast: astra.creators.create_sino3d_gpu
FPRun ==
    /\ pc = "fp_run"
    /\ log' = Append(log, Event("forward_project", iter, comp, thresh,
                                {<<sub[comp].comp, sub[comp].gen>>}))
    /\ \/ \E v \in BackendVals :
            /\ projections' = [projections EXCEPT ![comp] =
                  Stack(sub[1].shape[1], sub[1].shape[1], Fill(Len(angles), v),
                        {<<sub[comp].comp, sub[comp].gen>>})]
            /\ live' = live \cup {Handle("sino", "forward_project")}
            /\ pc' = "fp_clear"
            /\ UNCHANGED err
       \/ Raise("BackendError") /\ UNCHANGED <<projections, live>>
    /\ UNCHANGED <<inputs, ws, possible_ts, thresh, a_weighted, A_recon, iter, comp,
                   sel, sub, recon>>

\* generate_A_projection_fast: astra.clear() after one component
FPClear ==
    /\ pc = "fp_clear"
    /\ live' = {}
    /\ IF comp < 3
       THEN comp' = comp + 1 /\ pc' = "fp_alloc"
       ELSE comp' = 0 /\ pc' = "decon"
    /\ UNCHANGED <<inputs, ws, possible_ts, thresh, a_weighted, A_recon, iter,
                   sel, sub, recon, projections, err, log>>

\* projections*mesh_params[1][0]/mesh_params[2][0]
ScaleProj(projs, mesh) ==
    [projs EXCEPT !.sl = ScaleLoop(@, R(mesh[2][1]), R(mesh[3][1]), 1)]

DecontaminateSkipped ==
    /\ pc = "decon"
    /\ a_weighted' = << Pad(ScaleProj(projections[1], mesh_params), n_pad),
                        Pad(ScaleProj(projections[2], mesh_params), n_pad),
                        Pad(ScaleProj(projections[3], mesh_params), n_pad) >>
    /\ comp' = 1
    /\ pc' = "recon_step"
    /\ projections' = <<NoStack, NoStack, NoStack>>
    /\ UNCHANGED <<inputs, ws, possible_ts, thresh, A_recon, iter, sel, sub, recon,
                   live, err, log>>

\* update_weighted_proj_data builds new arrays: phase_projs*1/const is a
\* product, not an in-place scaling of the caller's array
DecontaminateInPlace ==
    /\ pc = "decon"
    /\ LET p == << Pad(ScaleProj(projections[1], mesh_params), n_pad),
                   Pad(ScaleProj(projections[2], mesh_params), n_pad),
                   Pad(ScaleProj(projections[3], mesh_params), n_pad) >>
       IN  IF UpdateRaises(phase_projs, p[1], p[2], p[3])
           THEN Raise("ValueError") /\ UNCHANGED <<a_weighted, comp, log, phase_projs>>
           ELSE /\ a_weighted' = update_weighted_proj_data(phase_projs, p[1], p[2], p[3], ws)
                /\ phase_projs' = Unscale(phase_projs)
                /\ log' = Append(log, Event("decon", iter, 0, thresh,
                                            p[1].src \cup p[2].src \cup p[3].src))
                /\ comp' = 1
                /\ pc' = "recon_step"
                /\ UNCHANGED err
    /\ projections' = <<NoStack, NoStack, NoStack>>
    /\ UNCHANGED <<angles, mesh_params, n_pad, n_full_iter, thresh_range, ws,
                   possible_ts, thresh, A_recon, iter, sel, sub, recon, live>>

\* the end of generate_A_projection_fast, the re-padding of its three stacks
\* and update_weighted_proj_data
Decontaminate ==
    /\ pc = "decon"
    /\ LET p == << Pad(ScaleProj(projections[1], mesh_params), n_pad),
                   Pad(ScaleProj(projections[2], mesh_params), n_pad),
                   Pad(ScaleProj(projections[3], mesh_params), n_pad) >>
       IN  IF UpdateRaises(phase_projs, p[1], p[2], p[3])
           THEN Raise("ValueError") /\ UNCHANGED <<a_weighted, comp, log>>
           ELSE /\ a_weighted' = update_weighted_proj_data(phase_projs, p[1], p[2], p[3], ws)
                /\ log' = Append(log, Event("decon", iter, 0, thresh,
                                            p[1].src \cup p[2].src \cup p[3].src))
                /\ comp' = 1
                /\ pc' = "recon_step"
                /\ UNCHANGED err
    /\ projections' = <<NoStack, NoStack, NoStack>>
    /\ UNCHANGED <<inputs, ws, possible_ts, thresh, A_recon, iter, sel, sub, recon, live>>

\* the astra.clear() that ends the body of the loop
LoopTail ==
    /\ pc = "loop_tail"
    /\ live' = {}
    /\ pc' = "loop_head"
    /\ UNCHANGED <<inputs, ws, possible_ts, thresh, a_weighted, A_recon, iter, comp,
                   sel, sub, recon, projections, err, log>>

\* return Ax_recon, Ay_recon, Az_recon
Return ==
    /\ pc = "loop_head"
    /\ ~LoopContinues(iter, n_full_iter)
    /\ pc' = "done"
    /\ UNCHANGED <<inputs, ws, possible_ts, thresh, a_weighted, A_recon, iter, comp,
                   sel, sub, recon, projections, live, err, log>>

Next ==
    \/ Initialise
    \/ ReconStep
    \/ GRAlloc
    \/ GRRun
    \/ ReconFinish
    \/ LoopHead
    \/ FPAlloc
    \/ FPRun
    \/ FPClear
    \/ Decontaminate
    \/ LoopTail
    \/ Return

Spec == Init /\ [][Next]_vars

Terminated == pc \in {"done", "error"}

\* ---------------------------------------------------------------- history
\* positions of the log at which operation op was recorded
At(op) == {k \in 1..Len(log) : log[k].op = op}

\* the k-th recon_step call of a complete run: <<major iteration, component>>
ExpectedCall(k) == <<(k - 1) \div 3, ((k - 1) % 3) + 1>>

\* the recon_step calls made so far, in order
ReconCalls == SelectSeq(log, LAMBDA e : e.op = "recon_step")

\* ----------------------------------------------------------------- claims
\* C1 as stated: whenever the backend's calls all return (and the mesh has
\* positive voxel counts), the run ends by returning after exactly
\* 3*n_full_iter recon_step calls in the order Ax, Ay, Az per major iteration.
C1_AlwaysReturns ==
    (Terminated /\ err # "BackendError" /\ ~ResRaises(mesh_params)) =>
        /\ pc = "done"
        /\ Len(ReconCalls) = 3 * n_full_iter
        /\ \A k \in 1..Len(ReconCalls) :
              <<ReconCalls[k].m, ReconCalls[k].c>> = ExpectedCall(k)

\* C1 amended: the recon_step calls of any run are made in the order Ax, Ay,
\* Az of major iteration 0, 1, ..., never more than 3*n_full_iter of them;
\* a run that returns has made exactly 3*n_full_iter of them over exactly
\* n_full_iter major iterations and holds three volumes of the last one; a
\* run that stops earlier has raised an error.
C1_ReturnsAfterAllIterations ==
    /\ Len(ReconCalls) <= 3 * n_full_iter
    /\ \A k \in 1..Len(ReconCalls) :
          <<ReconCalls[k].m, ReconCalls[k].c>> = ExpectedCall(k)
    /\ pc = "done" =>
          /\ err = "none"
          /\ Len(ReconCalls) = 3 * n_full_iter
          /\ iter = n_full_iter - 1
          /\ \A c \in 1..3 : A_recon[c].comp = c /\ A_recon[c].gen = n_full_iter - 1
    /\ (Terminated /\ pc # "done") => err # "none"

C1_Witness ==
    /\ pc = "done"
    /\ n_full_iter = 3
    /\ Len(ReconCalls) = 9

Above(c, t) == {i \in 1..Len(ws) : FGt(FAbs(ws[i][c]), t)}

\* position of tilt index i among the selected ones
Rank(c, t, i) == Cardinality({j \in Above(c, t) : j <= i})

InReconBackend == pc \in {"gr_alloc", "gr_run", "recon_finish"}

\* C3: the stack handed to the backend holds exactly the slices whose weight
\* satisfies abs(w) > thresh, in tilt order, each with the angle and the
\* projection vector of the same tilt index; as many vectors as slices.
C3_ThresholdSelection ==
    InReconBackend =>
        /\ Len(sel.a_thresh.sl) = Cardinality(Above(comp, thresh))
        /\ Len(sel.angles_thresh) = Len(sel.a_thresh.sl)
        /\ Len(sel.vecs) = Len(sel.a_thresh.sl)
        /\ \A i \in Above(comp, thresh) :
              LET k == Rank(comp, thresh, i)
              IN  /\ sel.a_thresh.sl[k] = a_weighted[comp].sl[i]
                  /\ sel.angles_thresh[k] = angles[i]
                  /\ sel.vecs[k] = get_astravec(angles[i][1], angles[i][2], angles[i][3])

C3_Witness ==
    /\ pc = "gr_alloc"
    /\ Len(sel.angles_thresh) = 2
    /\ Len(angles) = 3
    /\ \E i \in 1..Len(ws) : FAbs(ws[i][comp]) = thresh
    /\ sel.angles_thresh[1] # angles[1]

\* number of backend calls recorded in a log
BackendCalls(l) ==
    Len(SelectSeq(l, LAMBDA e : e.op \in {"reconstruct", "forward_project"}))

\* C4: a recon_step entered with no angle whose abs(weight) exceeds the
\* threshold ends in an error: it allocates nothing in the backend and makes
\* no backend call.
C4_EmptySubsetFails ==
    [][(pc = "recon_step" /\ Above(comp, thresh) = {}) =>
          /\ pc' = "error"
          /\ err' \in {"ValueError", "ZeroDivisionError"}
          /\ live' = live
          /\ BackendCalls(log') = BackendCalls(log)]_vars

C4_Witness ==
    /\ pc = "error"
    /\ err = "ValueError"
    /\ log[Len(log)].op = "recon_step"
    /\ Above(comp, thresh) = {}
    /\ iter >= 1

\* C5: every recon_step call of major iteration m comes after the
\* decontamination of iteration m, and for m >= 1 that decontamination comes
\* after the forward projection of all three components in iteration m.
C5_DecontaminationFirst ==
    /\ \A k \in At("recon_step") :
          \E j \in At("decon") : j < k /\ log[j].m = log[k].m
    /\ \A k \in At("decon") : \A j \in At("recon_step") :
          log[j].m = log[k].m => k < j
    /\ \A k \in At("decon") : log[k].m >= 1 =>
          \A c \in 1..3 : \E j \in At("forward_project") :
              j < k /\ log[j].m = log[k].m /\ log[j].c = c

C5_Witness ==
    /\ pc = "done"
    /\ n_full_iter = 3
    /\ Cardinality(At("decon")) = 3

\* C6: in major iteration m >= 1 every forward projection reads a volume
\* produced by iteration m-1, and the data of every recon_step is computed
\* from volumes of iteration m-1 only.
C6_PreviousIterationOnly ==
    \A k \in At("recon_step") \cup At("forward_project") \cup At("decon") :
        log[k].m >= 1 =>
            /\ log[k].src # {}
            /\ \A v \in log[k].src : v[1] \in 1..3 /\ v[2] = log[k].m - 1

C6_Witness ==
    /\ pc = "done"
    /\ n_full_iter = 3
    /\ log[Len(log)].op = "reconstruct"
    /\ log[Len(log)].src = {<<1, 1>>, <<2, 1>>}

\* C8: until the decontamination of major iteration 1, the stack of each
\* component holds, at each angle, the raw phase slice divided by the mixing
\* constant and then by that component's own weight, nothing subtracted (a
\* zero weight giving a non-finite slice).
C8_FirstDecontamination ==
    (pc # "start" /\ \A k \in At("decon") : log[k].m = 0) =>
        \A c \in 1..3 :
            /\ Len(a_weighted[c].sl) = Len(angles)
            /\ \A i \in 1..Len(angles) :
                  a_weighted[c].sl[i] = FDiv(FDiv(phase_projs.sl[i], const), ws[i][c])

C8_Witness ==
    /\ pc = "recon_step"
    /\ iter = 0
    /\ \E i \in 1..Len(angles) :
          /\ phase_projs.sl[i] # R(0)
          /\ ws[i][1] # R(0) /\ ws[i][2] # R(0) /\ ws[i][3] # R(0)
          /\ a_weighted[1].sl[i] # a_weighted[2].sl[i]

\* C9 as stated: for a padded problem of side N and margin n_pad each
\* returned volume has side N - 2*n_pad.
C9_ReturnedUnpadded ==
    pc = "done" =>
        \A c \in 1..3 :
            A_recon[c].shape = << phase_projs.rows - 2 * n_pad,
                                  phase_projs.rows - 2 * n_pad,
                                  phase_projs.cols - 2 * n_pad >>

\* C9 amended: the returned volumes are still padded: for a phase stack of
\* shape (N, tilt, N) each returned volume has side N whatever n_pad is.
C9_ReturnedPadded ==
    pc = "done" =>
        \A c \in 1..3 :
            A_recon[c].shape = <<phase_projs.rows, phase_projs.rows, phase_projs.cols>>

C9_Witness ==
    /\ pc = "done"
    /\ n_pad = 1
    /\ n_full_iter >= 2
    /\ A_recon[3].shape = <<3, 3, 3>>

\* C10: no backend allocation is live when the next backend call begins, nor
\* when the run has handed control back, by returning or by raising.
C10_AllocationsReleased ==
    pc \in {"gr_alloc", "fp_alloc", "recon_step", "decon", "loop_head", "done", "error"}
        => live = {}

\* ------------------------------------------- the mixing model, for C7
\* p + q, pixel by pixel
RECURSIVE AddLoop(_, _, _)
AddLoop(a, b, i) ==
    IF i > Len(a) THEN <<>> ELSE <<FAdd(a[i], b[i])>> \o AddLoop(a, b, i + 1)

\* const*(wx*Px + wy*Py + wz*Pz), the phase stack of components P under weights w
Mix(P, w) ==
    LET sum == AddLoop(AddLoop(weight_phases(P[1], WCol(w, 1)).sl,
                               weight_phases(P[2], WCol(w, 2)).sl, 1),
                       weight_phases(P[3], WCol(w, 3)).sl, 1)
    IN  Stack(P[1].rows, P[1].cols, ScaleLoop(sum, const, R(1), 1), {})

MixTriples == {<<x, y, 0>> : x \in {0, 53}, y \in {0, -37, 53}}

MixSchemes == {<<t>> : t \in MixTriples} \cup {<<t, <<53, -37, 0>> >> : t \in MixTriples}

MixVals == {R(0), R(1), R(-2)}

\* a stack of n slices of side 2 whose central pixels are v, v+1, ...
RECURSIVE Ramp(_, _)
Ramp(n, v) == IF n = 0 THEN <<>> ELSE <<v>> \o Ramp(n - 1, FAdd(v, R(1)))

InitMix ==
    /\ angles \in MixSchemes
    /\ \E vx \in MixVals, vy \in MixVals, vz \in MixVals :
          projections = << Stack(2, 2, Ramp(Len(angles), vx), {}),
                           Stack(2, 2, Ramp(Len(angles), vy), {}),
                           Stack(2, 2, Ramp(Len(angles), vz), {}) >>
    /\ ws = calculate_A_contributions(angles)
    /\ phase_projs = NoStack
    /\ mesh_params = << <<0, 0, 0>>, <<2, 2, 2>>, <<2, 2, 2>> >>
    /\ n_pad = 0
    /\ n_full_iter = 1
    /\ thresh_range = <<R(0), R(1)>>
    /\ possible_ts = <<>>
    /\ thresh = R(0)
    /\ a_weighted = <<NoStack, NoStack, NoStack>>
    /\ A_recon = <<NoVolume, NoVolume, NoVolume>>
    /\ iter = 0
    /\ comp = 0
    /\ pc = "mix_input"
    /\ sel = NoSel
    /\ sub = <<NoVolume, NoVolume, NoVolume>>
    /\ recon = NoVolume
    /\ live = {}
    /\ err = "none"
    /\ log = <<>>

\* a phase stack that obeys the mixing model exactly
MeasureExact ==
    /\ pc = "mix_input"
    /\ phase_projs' = Mix(projections, ws)
    /\ pc' = "measured"
    /\ UNCHANGED <<angles, mesh_params, n_pad, n_full_iter, thresh_range, ws,
                   possible_ts, thresh, a_weighted, A_recon, iter, comp, sel, sub,
                   recon, projections, live, err, log>>

\* a phase stack that departs from the mixing model by one unit per pixel
MeasureOffset ==
    /\ pc = "mix_input"
    /\ phase_projs' = [Mix(projections, ws) EXCEPT
                          !.sl = AddLoop(@, Fill(Len(angles), R(1)), 1)]
    /\ pc' = "measured"
    /\ UNCHANGED <<angles, mesh_params, n_pad, n_full_iter, thresh_range, ws,
                   possible_ts, thresh, a_weighted, A_recon, iter, comp, sel, sub,
                   recon, projections, live, err, log>>

\* update_weighted_proj_data(phase, Px, Py, Pz, ws)
Separate ==
    /\ pc = "measured"
    /\ a_weighted' = update_weighted_proj_data(phase_projs, projections[1],
                                               projections[2], projections[3], ws)
    /\ pc' = "separated"
    /\ UNCHANGED <<inputs, ws, possible_ts, thresh, A_recon, iter, comp, sel, sub,
                   recon, projections, live, err, log>>

NextMix == MeasureExact \/ MeasureOffset \/ Separate

SpecMix == InitMix /\ [][NextMix]_vars

NonZeroWeights == \A i \in 1..Len(ws) : \A c \in 1..3 : ws[i][c] # R(0)

\* C7: when the phase stack obeys phase = const*(wx*Px + wy*Py + wz*Pz) at
\* every angle and no weight is zero, update_weighted_proj_data(phase, Px, Py,
\* Pz, ws) returns (Px, Py, Pz), and mixing its output with the same weights
\* gives the phase stack back.
C7_SeparationInvertsMixing ==
    (pc = "separated" /\ NonZeroWeights /\ phase_projs = Mix(projections, ws)) =>
        /\ \A c \in 1..3 :
              /\ a_weighted[c].sl = projections[c].sl
              /\ a_weighted[c].rows = projections[c].rows
              /\ a_weighted[c].cols = projections[c].cols
        /\ Mix(a_weighted, ws) = phase_projs

C7_Witness ==
    /\ pc = "separated"
    /\ NonZeroWeights
    /\ phase_projs = Mix(projections, ws)
    /\ Len(angles) = 2
    /\ projections[1].sl # projections[2].sl
    /\ projections[2].sl # projections[3].sl
    /\ a_weighted[3].sl = <<R(-2), R(-1)>>

\* ------- the three recon_step calls of one major iteration run concurrently
\* Each call is a thread of the same process and so shares the backend's object
\* table.  pc, sel, recon and err hold one entry per component.
ConcHandle(kind, c) == [kind |-> kind, op |-> "reconstruct", m |-> iter, c |-> c]

\* the objects generate_reconstruction creates for component c
ConcHandles(c) == {ConcHandle("proj", c), ConcHandle("vol", c), ConcHandle("alg", c)}

\* what is left in the backend after astra.clear() is called by the step of
\* component c: the call takes no argument and deletes every object
AstraClearOwn(l, c) == {h \in l : h.c # c}

AstraClear(l, c) == {}

ConcThreshRanges == ThreshRanges \cup {<<R(0), R(0)>>}

InitConc ==
    /\ \E side \in 2..MaxSide, scheme \in AngleSchemes :
          /\ angles = scheme
          /\ phase_projs = Stack(side, side, Fill(Len(scheme), R(1)), {})
    /\ mesh_params \in Meshes
    /\ n_pad = 0
    /\ n_full_iter = 1
    /\ thresh_range \in ConcThreshRanges
    /\ ws = calculate_A_contributions(angles)
    /\ possible_ts = <<>>
    /\ thresh = thresh_range[2]
    /\ LET z == ZerosLike(phase_projs)
       IN  a_weighted = update_weighted_proj_data(phase_projs, z, z, z, ws)
    /\ A_recon = <<NoVolume, NoVolume, NoVolume>>
    /\ iter = 0
    /\ comp = 0
    /\ pc = <<"recon_step", "recon_step", "recon_step">>
    /\ sel = <<NoSel, NoSel, NoSel>>
    /\ sub = <<NoVolume, NoVolume, NoVolume>>
    /\ recon = <<NoVolume, NoVolume, NoVolume>>
    /\ projections = <<NoStack, NoStack, NoStack>>
    /\ live = {}
    /\ err = <<"none", "none", "none">>
    /\ log = <<>>

ConcRaise(c, e) ==
    /\ err' = [err EXCEPT ![c] = e]
    /\ pc' = [pc EXCEPT ![c] = "error"]

\* recon_step of component c from its entry to the generate_reconstruction call
ConcReconStep(c) ==
    /\ pc[c] = "recon_step"
    /\ LET w == WCol(ws, c)
           data == ThreshData(a_weighted[c], w, thresh)
           angs == ThreshAngles(angles, w, thresh)
       IN  IF ResRaises(mesh_params)
           THEN ConcRaise(c, "ZeroDivisionError") /\ UNCHANGED sel
           ELSE IF TransposeRaises(data.sl)
           THEN ConcRaise(c, "ValueError") /\ UNCHANGED sel
           ELSE /\ sel' = [sel EXCEPT ![c] =
                              [res |-> Resolution(mesh_params), a_thresh |-> data,
                               angles_thresh |-> angs, vecs |-> generate_vectors(angs)]]
                /\ pc' = [pc EXCEPT ![c] = "gr_alloc"]
                /\ UNCHANGED err
    /\ UNCHANGED <<inputs, ws, possible_ts, thresh, a_weighted, A_recon, iter, comp,
                   sub, recon, projections, live, log>>

\* generate_reconstruction of component c: load the data objects
ConcAlloc(c) ==
    /\ pc[c] = "gr_alloc"
    /\ live' = live \cup ConcHandles(c)
    /\ pc' = [pc EXCEPT ![c] = "gr_run"]
    /\ UNCHANGED <<inputs, ws, possible_ts, thresh, a_weighted, A_recon, iter, comp,
                   sel, sub, recon, projections, err, log>>

\* generate_reconstruction of component c: astra.algorithm.run returns.  When
\* the objects it works on were deleted under it the outcome is not defined:
\* it raises, or it returns and the loss shows at astra.data3d.get.
ConcRun(c) ==
    /\ pc[c] = "gr_run"
    /\ \/ /\ pc' = [pc EXCEPT ![c] = "gr_get"]
          /\ UNCHANGED err
       \/ ConcRaise(c, "BackendError")
    /\ UNCHANGED <<inputs, ws, possible_ts, thresh, a_weighted, A_recon, iter, comp,
                   sel, sub, recon, projections, live, log>>

\* generate_reconstruction of component c: astra.data3d.get copies the volume out
ConcGet(c) ==
    /\ pc[c] = "gr_get"
    /\ IF ConcHandle("vol", c) \in live
       THEN /\ \E v \in BackendVals :
                 recon' = [recon EXCEPT ![c] =
                              [shape |-> VolShape(sel[c].a_thresh), comp |-> c,
                               gen |-> iter, src |-> sel[c].a_thresh.src, val |-> v]]
            /\ pc' = [pc EXCEPT ![c] = "rs_finish"]
            /\ UNCHANGED err
       ELSE ConcRaise(c, "BackendError") /\ UNCHANGED recon
    /\ UNCHANGED <<inputs, ws, possible_ts, thresh, a_weighted, A_recon, iter, comp,
                   sel, sub, projections, live, log>>

\* recon_step of component c after generate_reconstruction returned: reformat,
\* rescale, astra.clear(), return
ConcFinish(c) ==
    /\ pc[c] = "rs_finish"
    /\ A_recon' = [A_recon EXCEPT ![c] =
                      [recon[c] EXCEPT !.shape = Reverse3(@), !.val = FDiv(@, sel[c].res)]]
    /\ live' = AstraClear(live, c)
    /\ pc' = [pc EXCEPT ![c] = "returned"]
    /\ UNCHANGED <<inputs, ws, possible_ts, thresh, a_weighted, iter, comp, sel, sub,
                   recon, projections, err, log>>

NextConc ==
    \E c \in 1..3 :
        \/ ConcReconStep(c)
        \/ ConcAlloc(c)
        \/ ConcRun(c)
        \/ ConcGet(c)
        \/ ConcFinish(c)

SpecConc == InitConc /\ [][NextConc]_vars

\* component c's reconstruction is running or its result is not yet copied out
InUse(c) == pc[c] \in {"gr_run", "gr_get"}

ConfigError ==
    /\ pc = "error"
    /\ err \in {"ValueError", "ZeroDivisionError"}
    /\ log[Len(log)].op = "recon_step"

\* C12: when a run of iterative_update_algorithm ends in a configuration
\* error (a threshold that leaves some component no angle in some major
\* iteration, or a voxel count that is not positive) no backend call, to
\* reconstruct or to forward-project, has been made earlier in the run.
C12_ConfigErrorBeforeBackend ==
    ConfigError => BackendCalls(log) = 0

\* C13: when a backend call fails inside a recon_step or inside the forward
\* projection, iterative_update_algorithm takes no further step: it does not
\* retry the call, runs no later component and no later major iteration, makes
\* no further backend call, and the failure is what the caller receives.
C13_BackendFailureEndsRun ==
    [][/\ err # "BackendError"
       /\ err' = "BackendError" =>
             /\ pc' = "error"
             /\ pc \in {"gr_run", "fp_alloc", "fp_run"}
             /\ A_recon' = A_recon
             /\ BackendCalls(log') <= BackendCalls(log) + 1]_vars

C13_Witness ==
    /\ pc = "error"
    /\ err = "BackendError"
    /\ log[Len(log)].op = "forward_project"
    /\ iter = 1
    /\ comp = 2
    /\ n_full_iter = 3

\* the backend call that was executing when the run ended in a backend failure
FailedAt ==
    IF sel # NoSel THEN "gr_run"
    ELSE IF log[Len(log)].op = "forward_project" /\ log[Len(log)].m = iter
            /\ log[Len(log)].c = comp
    THEN "fp_run"
    ELSE "fp_alloc"

\* the source lines a traceback names for a failure of component c's backend
\* call in major iteration m: the call in iterative_update_algorithm and the
\* backend call below it
TracebackOf(c, m, stage) ==
    IF stage = "gr_run" THEN <<IF m = 0 THEN 2699 + c ELSE 2724 + c, 2653, 663>>
    ELSE IF stage = "fp_alloc" THEN <<2716, <<3226, 3243, 3254>>[c]>>
    ELSE <<2716, <<3233, 3246, 3257>>[c]>>

\* what the caller receives: the backend's exception as it was raised, with
\* its traceback; no code between the backend and the caller adds to it
Propagated == [kind |-> err, traceback |-> TracebackOf(comp, iter, FailedAt)]

\* the threshold of major iteration m, from the arguments the caller passed
ThreshOf(m) ==
    IF m = 0 THEN thresh_range[2]
    ELSE ScheduleAt(linspace(thresh_range[1], thresh_range[2], n_full_iter - 1), m - 1)

\* the steps <<component, major iteration, threshold>> of this call in which
\* a failure would reach the caller as p
Candidates(p) ==
    {s \in {<<c, m, ThreshOf(m)>> : c \in 1..3, m \in 0..(n_full_iter - 1)} :
        \E stage \in {"gr_run", "fp_alloc", "fp_run"} :
            /\ stage # "gr_run" => s[2] >= 1
            /\ TracebackOf(s[1], s[2], stage) = p.traceback}

\* C14: a backend failure propagated out of iterative_update_algorithm
\* identifies the component, the major iteration and the threshold at which
\* it occurred: exactly one step of the call can have produced it.
C14_FailureIdentifiesStep ==
    (pc = "error" /\ err = "BackendError") =>
        Candidates(Propagated) = {<<comp, iter, thresh>>}

ShapeOf(P) == <<P.rows, Len(P.sl), P.cols>>

\* projs[:, i:i+1, :], the stack made of slice i alone
Slice(P, i) == Stack(P.rows, P.cols, <<P.sl[i]>>, P.src)

\* np.shape(np.transpose(a, axes)) for an array a of shape "shape"
Transpose3(shape, axes) ==
    <<shape[axes[1] + 1], shape[axes[2] + 1], shape[axes[3] + 1]>>

\* shape of what weight_phases returns: new_ps is a list of Len(w) slices,
\* each of rows x cols pixels, transposed with axes=[1,0,2]
NewPsShape(projs, w) == Transpose3(<<Len(w), projs.rows, projs.cols>>, <<1, 0, 2>>)

\* C16: weight_phases and update_weighted_proj_data return stacks of the
\* shape (row, tiltIndex, col) of the phase stack they were given: the tilt
\* index is the middle axis, there is one output slice per angle of the
\* scheme, and output slice i is what the function returns when it is given
\* slice i of its inputs and weight i alone.
C16_ShapeAndSlicewise ==
    pc = "separated" =>
        \A c \in 1..3 :
            /\ ShapeOf(a_weighted[c]) = ShapeOf(phase_projs)
            /\ ShapeOf(a_weighted[c])[2] = Len(angles)
            /\ NewPsShape(projections[c], WCol(ws, c)) = ShapeOf(projections[c])
            /\ ShapeOf(weight_phases(projections[c], WCol(ws, c)))
                  = NewPsShape(projections[c], WCol(ws, c))
            /\ \A i \in 1..Len(angles) :
                  /\ weight_phases(projections[c], WCol(ws, c)).sl[i]
                        = weight_phases(Slice(projections[c], i), <<ws[i][c]>>).sl[1]
                  /\ a_weighted[c].sl[i]
                        = update_weighted_proj_data(
                              Slice(phase_projs, i), Slice(projections[1], i),
                              Slice(projections[2], i), Slice(projections[3], i),
                              <<ws[i]>>)[c].sl[1]

C16_Witness ==
    /\ pc = "separated"
    /\ Len(angles) = 2
    /\ ShapeOf(a_weighted[2]) = <<2, 2, 2>>
    /\ phase_projs.sl[1] # phase_projs.sl[2]
    /\ IsFinite(a_weighted[2].sl[1])
    /\ IsFinite(a_weighted[2].sl[2])
    /\ a_weighted[2].sl[1] # a_weighted[2].sl[2]

\* -------------------------------------------------------- generate_angles
\* The outcome of a call: the exception it raised ("none" if it returned) and
\* the list it returned.
Returned(seq) == [raised |-> "none", angles |-> seq]

Raised(kind) == [raised |-> kind, angles |-> <<>>]

\* "for ax in vals: angles.append([ax,ay,az])"
RECURSIVE AxLoop(_, _, _, _)
AxLoop(vals, ay, az, i) ==
    IF i > Len(vals) THEN <<>>
    ELSE << <<vals[i], ay, az>> >> \o AxLoop(vals, ay, az, i + 1)

\* "for ay in vals: angles.append([ax,ay,az])"
RECURSIVE AyLoop(_, _, _, _)
AyLoop(vals, ax, az, i) ==
    IF i > Len(vals) THEN <<>>
    ELSE << <<ax, vals[i], az>> >> \o AyLoop(vals, ax, az, i + 1)

\* "for i,a in enumerate(ax): angles.append([a,sign*ay[i],0])" when axis is
\* "beta", and "angles.append([a,0,sign*az[i]])" when it is "gamma"
RECURSIVE PairLoop(_, _, _, _, _)
PairLoop(xs, vs, axis, sign, i) ==
    IF i > Len(xs) THEN <<>>
    ELSE << IF axis = "beta" THEN <<xs[i], FMul(R(sign), vs[i]), R(0)>>
            ELSE <<xs[i], R(0), FMul(R(sign), vs[i])>> >>
         \o PairLoop(xs, vs, axis, sign, i + 1)

\* "for x in ax: for y in ay: angles.append([x,y,0])" when axis is "beta",
\* "for x in ax: for z in az: angles.append([x,0,z])" when it is "gamma"
RECURSIVE GridLoop(_, _, _, _)
GridLoop(xs, vs, axis, i) ==
    IF i > Len(xs) THEN <<>>
    ELSE (IF axis = "beta" THEN AyLoop(vs, xs[i], R(0), 1)
          ELSE PairLoop(Fill(Len(vs), xs[i]), vs, "gamma", 1, 1))
         \o GridLoop(xs, vs, axis, i + 1)

\* a[::-1]
RECURSIVE ReverseSeq(_)
ReverseSeq(a) == IF a = <<>> THEN <<>> ELSE ReverseSeq(Tail(a)) \o <<Head(a)>>

\* a[:-1]
DropLast(a) == IF a = <<>> THEN <<>> ELSE SubSeq(a, 1, Len(a) - 1)

\* int(n/d) for n >= 0 and d > 0
IntDiv(n, d) == n \div d

\* np.linspace(start, stop, n/d + plus), the number of samples being a Python
\* float: numpy from 1.18 on raises TypeError, older releases warn and
\* truncate.  env.float_num tells which numpy runs; -1 stands for the raise.
FloatNum(n, d, plus, env) ==
    IF env.float_num = "TypeError" THEN -1 ELSE (n \div d) + plus

\* the k-th value drawn from np.random.rand()
Draw(env, k) == env.rnd[((k - 1) % Len(env.rnd)) + 1]

\* if mode=='x'
ModeXShort(n_tilt, alpha) ==
    Returned(AxLoop(DropLast(linspace(R(-alpha), R(alpha), n_tilt)), R(0), R(0), 1))

ModeX(n_tilt, alpha) ==
    Returned(AxLoop(linspace(R(-alpha), R(alpha), n_tilt), R(0), R(0), 1))

\* if mode=='y', without the test "if gamma >= 90: az = 90"
ModeYNoClamp(n_tilt, alpha, beta, gamma, tilt2) ==
    IF tilt2 = "beta"
    THEN Returned(AyLoop(linspace(R(-beta), R(beta), n_tilt), R(0), R(0), 1))
    ELSE IF tilt2 = "gamma"
    THEN Returned(AxLoop(linspace(R(-alpha), R(alpha), n_tilt), R(0), R(gamma), 1))
    ELSE Returned(<<>>)

\* if mode=='y'
ModeY(n_tilt, alpha, beta, gamma, tilt2) ==
    IF tilt2 = "beta"
    THEN Returned(AyLoop(linspace(R(-beta), R(beta), n_tilt), R(0), R(0), 1))
    ELSE IF tilt2 = "gamma"
    THEN Returned(AxLoop(linspace(R(-alpha), R(alpha), n_tilt), R(0),
                         IF gamma >= 90 THEN R(90) ELSE R(gamma), 1))
    ELSE Returned(<<>>)

\* if mode=='dual', the two series in the other order
ModeDualSwapped(n_tilt, alpha, beta, gamma, tilt2) ==
    LET n == IntDiv(n_tilt, 2)
        first == AxLoop(linspace(R(-alpha), R(alpha), n), R(0), R(0), 1)
    IN  IF tilt2 = "beta"
        THEN Returned(AyLoop(linspace(R(-beta), R(beta), n), R(0), R(0), 1) \o first)
        ELSE IF tilt2 = "gamma"
        THEN Returned(AxLoop(linspace(R(-alpha), R(alpha), n), R(0),
                             IF gamma >= 90 THEN R(90) ELSE R(gamma), 1) \o first)
        ELSE Returned(first)

\* if mode=='dual'
ModeDual(n_tilt, alpha, beta, gamma, tilt2) ==
    LET n == IntDiv(n_tilt, 2)
        first == AxLoop(linspace(R(-alpha), R(alpha), n), R(0), R(0), 1)
    IN  IF tilt2 = "beta"
        THEN Returned(first \o AyLoop(linspace(R(-beta), R(beta), n), R(0), R(0), 1))
        ELSE IF tilt2 = "gamma"
        THEN Returned(first \o AxLoop(linspace(R(-alpha), R(alpha), n), R(0),
                                      IF gamma >= 90 THEN R(90) ELSE R(gamma), 1))
        ELSE Returned(first)

\* if mode=='quad'
ModeQuad(n_tilt, alpha, beta, gamma, tilt2, env) ==
    LET n == IntDiv(n_tilt, 4)
        m == FloatNum(n_tilt, 4, 0, env)
        xs(k) == linspace(R(-alpha), R(alpha), k)
    IN  IF tilt2 = "beta"
        THEN Returned(AxLoop(xs(n), R(0), R(0), 1)
                      \o AyLoop(linspace(R(-beta), R(beta), n), R(0), R(0), 1)
                      \o AxLoop(xs(n), R(beta), R(0), 1)
                      \o AxLoop(xs(n), R(-beta), R(0), 1))
        ELSE IF tilt2 = "gamma"
        THEN IF gamma >= 90
             THEN Returned(AxLoop(xs(n), R(0), R(0), 1)
                           \o AxLoop(xs(n), R(0), R(90), 1)
                           \o AxLoop(xs(n), R(0), R(45), 1)
                           \o AxLoop(xs(n), R(0), R(-45), 1))
             ELSE IF m = -1 THEN Raised("TypeError")
             ELSE Returned(AxLoop(xs(m), R(0), R(gamma), 1)
                           \o AxLoop(xs(m), R(0), R(-gamma), 1)
                           \o AxLoop(xs(m), R(0), Frac(gamma, 3), 1)
                           \o AxLoop(xs(m), R(0), Frac(-gamma, 3), 1))
        ELSE Returned(<<>>)

\* if mode=='rand'
RECURSIVE RandLoop(_, _, _, _, _, _, _)
RandLoop(n_tilt, alpha, beta, gamma, tilt2, env, i) ==
    IF i >= n_tilt THEN <<>>
    ELSE LET known == tilt2 \in {"beta", "gamma"}
             k == IF known THEN 2 * i + 1 ELSE i + 1
             scaled(u, range) == FSub(FMul(FMul(u, R(range)), R(2)), R(range))
             ax_rand == scaled(Draw(env, k), alpha)
         IN  (IF tilt2 = "beta"
              THEN << <<ax_rand, scaled(Draw(env, k + 1), beta), R(0)>> >>
              ELSE IF tilt2 = "gamma"
              THEN << <<ax_rand, R(0), scaled(Draw(env, k + 1), gamma)>> >>
              ELSE <<>>)
             \o RandLoop(n_tilt, alpha, beta, gamma, tilt2, env, i + 1)

ModeRand(n_tilt, alpha, beta, gamma, tilt2, env) ==
    Returned(RandLoop(n_tilt, alpha, beta, gamma, tilt2, env, 0))

\* mode 'sync' and 'sx' with the second pass a plain repeat of the first
ModeSyncRepeated(n_tilt, alpha, beta, gamma, tilt2, halves) ==
    LET n == IntDiv(n_tilt, halves)
        ax == linspace(R(-alpha), R(alpha), n)
        range == IF tilt2 = "beta" THEN beta ELSE gamma
        second == linspace(R(-range), R(range), n)
    IN  IF tilt2 \in {"beta", "gamma"}
        THEN Returned(PairLoop(ax, second, tilt2, 1, 1)
                      \o (IF halves = 2 THEN PairLoop(ax, second, tilt2, 1, 1)
                          ELSE <<>>))
        ELSE Returned(<<>>)

\* if mode=='sync' (halves is 2) and if mode=='sx' (halves is 1)
ModeSync(n_tilt, alpha, beta, gamma, tilt2, halves) ==
    LET n == IntDiv(n_tilt, halves)
        ax == linspace(R(-alpha), R(alpha), n)
        range == IF tilt2 = "beta" THEN beta ELSE gamma
        second == linspace(R(-range), R(range), n)
    IN  IF tilt2 \in {"beta", "gamma"}
        THEN Returned(PairLoop(ax, second, tilt2, 1, 1)
                      \o (IF halves = 2 THEN PairLoop(ax, second, tilt2, -1, 1)
                          ELSE <<>>))
        ELSE Returned(<<>>)

\* if mode=='dist'
ModeDist(n_tilt, alpha, beta, gamma, dist_n2, tilt2, env) ==
    LET m == FloatNum(n_tilt, dist_n2, 1, env)
        ax == IF alpha = 90 THEN ReverseSeq(linspace(R(-90), R(90), m))
              ELSE linspace(R(-alpha), R(alpha), IntDiv(n_tilt, dist_n2))
    IN  IF dist_n2 = 0 THEN Raised("ZeroDivisionError")
        ELSE IF alpha = 90 /\ m = -1 THEN Raised("TypeError")
        ELSE IF tilt2 = "beta"
        THEN Returned(GridLoop(ax, linspace(R(-beta), R(beta), dist_n2), "beta", 1))
        ELSE IF tilt2 = "gamma"
        THEN IF gamma < 90
             THEN Returned(GridLoop(ax, linspace(R(-gamma), R(gamma), dist_n2),
                                    "gamma", 1))
             ELSE Returned(GridLoop(ax, DropLast(linspace(R(-90), R(90), dist_n2 + 1)),
                                    "gamma", 1))
        ELSE Returned(<<>>)

\* generate_angles; env stands for what the call depends on beside its
\* arguments: the numpy release and the random generator
generate_angles(mode, n_tilt, alpha, beta, gamma, dist_n2, tilt2, env) ==
    IF mode = "x" THEN ModeX(n_tilt, alpha)
    ELSE IF mode = "y" THEN ModeY(n_tilt, alpha, beta, gamma, tilt2)
    ELSE IF mode = "dual" THEN ModeDual(n_tilt, alpha, beta, gamma, tilt2)
    ELSE IF mode = "quad" THEN ModeQuad(n_tilt, alpha, beta, gamma, tilt2, env)
    ELSE IF mode = "rand" THEN ModeRand(n_tilt, alpha, beta, gamma, tilt2, env)
    ELSE IF mode = "sync" THEN ModeSync(n_tilt, alpha, beta, gamma, tilt2, 2)
    ELSE IF mode = "sx" THEN ModeSync(n_tilt, alpha, beta, gamma, tilt2, 1)
    ELSE IF mode = "dist" THEN ModeDist(n_tilt, alpha, beta, gamma, dist_n2, tilt2, env)
    ELSE Returned(<<>>)

\* the modes and secondary-axis selectors generate_angles knows
Modes == {"x", "y", "dual", "quad", "rand", "sync", "sx", "dist"}

Tilt2s == {"beta", "gamma"}

\* the modes whose branch reads tilt2
UsesTilt2 == Modes \ {"x"}

ModeInputs == Modes \cup {"helix"}

Tilt2Inputs == Tilt2s \cup {"delta"}

NTiltInputs == 0..MaxTilt \cup {40}

AlphaInputs == {70, 90}

BetaInputs == {40}

GammaInputs == {30, 90, 180}

DistInputs == 1..MaxDist \cup {8}

EnvInputs ==
    [float_num : {"TypeError", "int"},
     rnd : {<<R(0), Frac(1, 2)>>, <<Frac(3, 4), Frac(1, 4), Frac(1, 2)>>}]

\* a call generate_angles(mode, n_tilt, alpha, beta, gamma, dist_n2, tilt2)
\* about to be made; sel holds its arguments
InitAngles ==
    /\ sel \in [mode : ModeInputs, n_tilt : NTiltInputs, alpha : AlphaInputs,
                beta : BetaInputs, gamma : GammaInputs, dist_n2 : DistInputs,
                tilt2 : Tilt2Inputs, env : EnvInputs]
    /\ angles = <<>>
    /\ phase_projs = NoStack
    /\ mesh_params = << <<0, 0, 0>>, <<2, 2, 2>>, <<2, 2, 2>> >>
    /\ n_pad = 0
    /\ n_full_iter = 1
    /\ thresh_range = <<R(0), R(1)>>
    /\ ws = <<>>
    /\ possible_ts = <<>>
    /\ thresh = R(0)
    /\ a_weighted = <<NoStack, NoStack, NoStack>>
    /\ A_recon = <<NoVolume, NoVolume, NoVolume>>
    /\ iter = 0
    /\ comp = 0
    /\ pc = "ga_call"
    /\ sub = <<NoVolume, NoVolume, NoVolume>>
    /\ recon = NoVolume
    /\ projections = <<NoStack, NoStack, NoStack>>
    /\ live = {}
    /\ err = "none"
    /\ log = <<>>

\* the outcome of the call held in sel
Outcome ==
    generate_angles(sel.mode, sel.n_tilt, sel.alpha, sel.beta, sel.gamma,
                    sel.dist_n2, sel.tilt2, sel.env)

\* the call returns its list
GAReturn ==
    /\ pc = "ga_call"
    /\ Outcome.raised = "none"
    /\ angles' = Outcome.angles
    /\ pc' = "ga_returned"
    /\ UNCHANGED <<phase_projs, mesh_params, n_pad, n_full_iter, thresh_range, ws,
                   possible_ts, thresh, a_weighted, A_recon, iter, comp, sel, sub,
                   recon, projections, live, err, log>>

\* the call raises
GARaise ==
    /\ pc = "ga_call"
    /\ Outcome.raised # "none"
    /\ err' = Outcome.raised
    /\ pc' = "ga_raised"
    /\ UNCHANGED <<inputs, ws, possible_ts, thresh, a_weighted, A_recon, iter, comp,
                   sel, sub, recon, projections, live, log>>

NextAngles == GAReturn \/ GARaise

SpecAngles == InitAngles /\ [][NextAngles]_vars

\* C17: generate_angles(mode='x') returns exactly n_tilt triples whose y and
\* z angles are exactly 0, for every alpha, n_tilt and secondary-axis selector.
C17_ModeX ==
    sel.mode = "x" =>
        /\ pc # "ga_raised"
        /\ pc = "ga_returned" =>
              /\ Len(angles) = sel.n_tilt
              /\ \A i \in 1..Len(angles) :
                    /\ Len(angles[i]) = 3
                    /\ angles[i][2] = R(0)
                    /\ angles[i][3] = R(0)

C17_Witness ==
    /\ pc = "ga_returned"
    /\ sel.mode = "x"
    /\ sel.tilt2 = "delta"
    /\ sel.alpha = 90
    /\ sel.n_tilt = 40
    /\ Len(angles) = 40
    /\ angles[1] = <<R(-90), R(0), R(0)>>
    /\ angles[40] = <<R(90), R(0), R(0)>>

\* C18: generate_angles(mode='dist') returns exactly
\* floor(n_tilt/dist_n2)*dist_n2 triples, the Cartesian product of an outer
\* grid of floor(n_tilt/dist_n2) x-angles and an inner grid of dist_n2
\* secondary angles, for every alpha, beta, gamma and secondary axis,
\* alpha = 90 and gamma >= 90 included.
C18_ModeDist ==
    (sel.mode = "dist" /\ sel.tilt2 \in Tilt2s) =>
        /\ pc # "ga_raised"
        /\ pc = "ga_returned" =>
              LET outer == sel.n_tilt \div sel.dist_n2
                  inner == sel.dist_n2
                  second == IF sel.tilt2 = "beta" THEN 2 ELSE 3
                  unused == IF sel.tilt2 = "beta" THEN 3 ELSE 2
              IN  /\ Len(angles) = outer * inner
                  /\ \A i \in 1..outer : \A j \in 1..inner :
                        LET a == angles[(i - 1) * inner + j]
                        IN  /\ a[1] = angles[(i - 1) * inner + 1][1]
                            /\ a[second] = angles[j][second]
                            /\ a[unused] = R(0)

\* C19: generate_angles fails, instead of returning a list, whenever the mode
\* is not one of x, y, dual, quad, rand, sync, sx, dist, or the secondary-axis
\* selector is neither beta nor gamma for a mode that uses it.
C19_RejectsUnknown ==
    (sel.mode \notin Modes \/ (sel.mode \in UsesTilt2 /\ sel.tilt2 \notin Tilt2s)) =>
        pc # "ga_returned"

\* C20: generate_angles(mode='quad') never fails and returns
\* 4*floor(n_tilt/4) triples in four consecutive sub-series of
\* floor(n_tilt/4) each, along one axis with the other two angles held, for
\* both secondary axes and every gamma, gamma < 90 included.
C20_ModeQuad ==
    (sel.mode = "quad" /\ sel.tilt2 \in Tilt2s) =>
        /\ pc # "ga_raised"
        /\ pc = "ga_returned" =>
              LET q == sel.n_tilt \div 4
                  Held(k, axis) ==
                      \A i \in 1..q : angles[k * q + i][axis] = angles[k * q + 1][axis]
              IN  /\ Len(angles) = 4 * q
                  /\ \A k \in 0..3 :
                        /\ Held(k, 3)
                        /\ Held(k, 1) \/ Held(k, 2)

\* the values of a series run from -range to range in increasing order
Sweeps(vals, range) ==
    /\ Len(vals) >= 1 => vals[1] = R(-range)
    /\ Len(vals) >= 2 => vals[Len(vals)] = R(range)
    /\ \A i \in 1..(Len(vals) - 1) : FGt(vals[i + 1], vals[i])

\* the angles about one axis (1 = x, 2 = y, 3 = z) of entries from..to
RECURSIVE Column(_, _, _, _)
Column(seq, axis, from, to) ==
    IF from > to THEN <<>> ELSE <<seq[from][axis]>> \o Column(seq, axis, from + 1, to)

Min(a, b) == IF a < b THEN a ELSE b

\* C21: generate_angles(mode='dual') returns an x-series of floor(n_tilt/2)
\* triples with y = z = 0 followed by a secondary series of floor(n_tilt/2)
\* triples: x = z = 0 and y sweeping for beta; y = 0, z = min(gamma, 90) and
\* x sweeping for gamma.  The length is 2*floor(n_tilt/2) and the x-series
\* comes first.
C21_ModeDual ==
    (sel.mode = "dual" /\ sel.tilt2 \in Tilt2s) =>
        /\ pc # "ga_raised"
        /\ pc = "ga_returned" =>
              LET h == sel.n_tilt \div 2
              IN  /\ Len(angles) = 2 * h
                  /\ Sweeps(Column(angles, 1, 1, h), sel.alpha)
                  /\ \A i \in 1..h : angles[i][2] = R(0) /\ angles[i][3] = R(0)
                  /\ sel.tilt2 = "beta" =>
                        /\ Sweeps(Column(angles, 2, h + 1, 2 * h), sel.beta)
                        /\ \A i \in (h + 1)..(2 * h) :
                              angles[i][1] = R(0) /\ angles[i][3] = R(0)
                  /\ sel.tilt2 = "gamma" =>
                        /\ Sweeps(Column(angles, 1, h + 1, 2 * h), sel.alpha)
                        /\ \A i \in (h + 1)..(2 * h) :
                              /\ angles[i][2] = R(0)
                              /\ angles[i][3] = R(Min(sel.gamma, 90))

C21_Witness ==
    /\ pc = "ga_returned"
    /\ sel.mode = "dual"
    /\ sel.tilt2 = "gamma"
    /\ sel.gamma = 30
    /\ sel.n_tilt = 7
    /\ Len(angles) = 6
    /\ angles[3] = <<R(70), R(0), R(0)>>
    /\ angles[4] = <<R(-70), R(0), R(30)>>

\* C22: generate_angles(mode='y') returns n_tilt triples: with secondary axis
\* gamma z is min(gamma, 90), y is 0 and x sweeps [-alpha, alpha]; with
\* secondary axis beta x = z = 0 and y sweeps [-beta, beta].
C22_ModeY ==
    (sel.mode = "y" /\ sel.tilt2 \in Tilt2s) =>
        /\ pc # "ga_raised"
        /\ pc = "ga_returned" =>
              /\ Len(angles) = sel.n_tilt
              /\ sel.tilt2 = "gamma" =>
                    /\ Sweeps(Column(angles, 1, 1, Len(angles)), sel.alpha)
                    /\ \A i \in 1..Len(angles) :
                          /\ angles[i][2] = R(0)
                          /\ angles[i][3] = R(Min(sel.gamma, 90))
              /\ sel.tilt2 = "beta" =>
                    /\ Sweeps(Column(angles, 2, 1, Len(angles)), sel.beta)
                    /\ \A i \in 1..Len(angles) :
                          angles[i][1] = R(0) /\ angles[i][3] = R(0)

C22_Witness ==
    /\ pc = "ga_returned"
    /\ sel.mode = "y"
    /\ sel.tilt2 = "gamma"
    /\ sel.gamma = 180
    /\ sel.n_tilt = 3
    /\ angles = << <<R(-70), R(0), R(90)>>, <<R(0), R(0), R(90)>>,
                   <<R(70), R(0), R(90)>> >>

\* C23: generate_angles(mode='sync') returns 2*floor(n_tilt/2) triples; entry
\* i of the second half has the x angle of entry i of the first half and the
\* negated secondary angle, and the remaining axis is 0 in every triple.
C23_ModeSync ==
    (sel.mode = "sync" /\ sel.tilt2 \in Tilt2s) =>
        /\ pc # "ga_raised"
        /\ pc = "ga_returned" =>
              LET h == sel.n_tilt \div 2
                  second == IF sel.tilt2 = "beta" THEN 2 ELSE 3
                  other == IF sel.tilt2 = "beta" THEN 3 ELSE 2
              IN  /\ Len(angles) = 2 * h
                  /\ \A i \in 1..(2 * h) : angles[i][other] = R(0)
                  /\ \A i \in 1..h :
                        /\ angles[h + i][1] = angles[i][1]
                        /\ angles[h + i][second] = FNeg(angles[i][second])

C23_Witness ==
    /\ pc = "ga_returned"
    /\ sel.mode = "sync"
    /\ sel.tilt2 = "beta"
    /\ sel.n_tilt = 5
    /\ angles = << <<R(-70), R(-40), R(0)>>, <<R(70), R(40), R(0)>>,
                   <<R(-70), R(40), R(0)>>, <<R(70), R(-40), R(0)>> >>

\* ------------------------ projection vectors and weights of single triples
\* the angles, in degrees, whose sine and cosine are rational
GeomAngles == {0, 37, -37, 53, -53}

GeomTriples == {<<x, y, z>> : x \in GeomAngles, y \in GeomAngles, z \in GeomAngles}

\* an angle scheme of one triple about to be turned into vectors and weights
InitGeom ==
    /\ angles \in {<<t>> : t \in GeomTriples}
    /\ phase_projs = NoStack
    /\ mesh_params = << <<0, 0, 0>>, <<2, 2, 2>>, <<2, 2, 2>> >>
    /\ n_pad = 0
    /\ n_full_iter = 1
    /\ thresh_range = <<R(0), R(1)>>
    /\ ws = <<>>
    /\ possible_ts = <<>>
    /\ thresh = R(0)
    /\ a_weighted = <<NoStack, NoStack, NoStack>>
    /\ A_recon = <<NoVolume, NoVolume, NoVolume>>
    /\ iter = 0
    /\ comp = 0
    /\ pc = "geom_input"
    /\ sel = NoSel
    /\ sub = <<NoVolume, NoVolume, NoVolume>>
    /\ recon = NoVolume
    /\ projections = <<NoStack, NoStack, NoStack>>
    /\ live = {}
    /\ err = "none"
    /\ log = <<>>

\* vecs = generate_vectors(angles)
GeomVectors ==
    /\ pc = "geom_input"
    /\ sel' = [sel EXCEPT !.vecs = generate_vectors(angles)]
    /\ pc' = "geom_vectors"
    /\ UNCHANGED <<inputs, ws, possible_ts, thresh, a_weighted, A_recon, iter, comp,
                   sub, recon, projections, live, err, log>>

\* ws = calculate_A_contributions(angles)
GeomWeights ==
    /\ pc = "geom_vectors"
    /\ ws' = calculate_A_contributions(angles)
    /\ pc' = "geom_weights"
    /\ UNCHANGED <<inputs, possible_ts, thresh, a_weighted, A_recon, iter, comp, sel,
                   sub, recon, projections, live, err, log>>

NextGeom == GeomVectors \/ GeomWeights

SpecGeom == InitGeom /\ [][NextGeom]_vars

\* C24: for every angle triple get_astravec returns 12 components
\* [r, d, u, v]: d is (0,0,0), u and v are orthogonal unit vectors, and r is
\* a unit vector orthogonal to both.
C24_OrthonormalFrame ==
    pc \in {"geom_vectors", "geom_weights"} =>
        \A k \in 1..Len(angles) :
            LET vec == sel.vecs[k]
                r == SubSeq(vec, 1, 3)
                d == SubSeq(vec, 4, 6)
                u == SubSeq(vec, 7, 9)
                v == SubSeq(vec, 10, 12)
            IN  /\ Len(sel.vecs) = Len(angles)
                /\ Len(vec) = 12
                /\ d = <<R(0), R(0), R(0)>>
                /\ Dot(u, u) = R(1)
                /\ Dot(v, v) = R(1)
                /\ Dot(r, r) = R(1)
                /\ Dot(u, v) = R(0)
                /\ Dot(r, u) = R(0)
                /\ Dot(r, v) = R(0)

C24_Witness ==
    /\ pc = "geom_vectors"
    /\ angles = << <<53, -37, 37>> >>
    /\ \A j \in {1, 2, 3, 7, 8, 9, 10, 11, 12} :
          sel.vecs[1][j] # R(0) /\ FAbs(sel.vecs[1][j]) # R(1)

\* C30: the weight triple computed by calculate_A_contributions depends only
\* on the x and y angles: triples that differ only in their z angle get the
\* same weights (wx, wy, wz).
C30_WeightsIgnoreZ ==
    pc = "geom_weights" =>
        \A k \in 1..Len(angles) : \A z \in GeomAngles :
            /\ Len(ws) = Len(angles)
            /\ calculate_A_contributions(<< <<angles[k][1], angles[k][2], z>> >>)[1] = ws[k]
            /\ ws[k] = << FNeg(Sin(angles[k][2])),
                          FMul(Cos(angles[k][2]), Sin(angles[k][1])),
                          FMul(Cos(angles[k][2]), Cos(angles[k][1])) >>

C30_Witness ==
    /\ pc = "geom_weights"
    /\ angles = << <<37, 53, -53>> >>
    /\ ws = << <<Frac(-4, 5), Frac(9, 25), Frac(12, 25)>> >>

\* ------------------------------------------------------------ resolution
\* project_along_z: z_size = p2[2]; z_res = z_size/n[2]
z_res(mesh) == Frac(mesh[2][3], mesh[3][3])

\* generate_A_projection_fast: the factor mesh_params[1][0]/mesh_params[2][0]
ProjScale(mesh) == Frac(mesh[2][1], mesh[3][1])

\* (extent[i] - origin[i]) / voxelCounts[i]
MeshRes(mesh, i) == Frac(mesh[2][i] - mesh[1][i], mesh[3][i])

\* C25: the per-axis resolution used by project_along_z, recon_step and
\* generate_A_projection_fast is (extent[i] - origin[i]) / voxelCounts[i] for
\* every mesh, meshes whose origin is not zero included.
C25_ResolutionFromExtent ==
    ~ResRaises(mesh_params) =>
        /\ InReconBackend =>
              /\ sel.res = MeshRes(mesh_params, 1)
              /\ z_res(mesh_params) = MeshRes(mesh_params, 3)
        /\ pc = "decon" =>
              /\ ProjScale(mesh_params) = MeshRes(mesh_params, 1)
              /\ \A c \in 1..3 :
                    ScaleProj(projections[c], mesh_params).sl
                        = ScaleLoop(projections[c].sl, MeshRes(mesh_params, 1), R(1), 1)

\* ------------------------------------------------- schemes with no y tilt
\* every rotation triple of the scheme has y angle 0
AllYZero == \A i \in 1..Len(angles) : angles[i][2] = 0

\* C26: when every y angle of the scheme is 0, every x-weight is 0, and for
\* a threshold >= 0 the Ax recon_step of major iteration 0 selects no angle:
\* the run ends there in an error and no backend call is ever made.
C26_NoYTiltFailsAtFirstStep ==
    (AllYZero /\ pc # "start") =>
        /\ \A i \in 1..Len(ws) : ws[i][1] = R(0)
        /\ FLeq(R(0), thresh)
        /\ BackendCalls(log) = 0
        /\ live = {}
        /\ pc \in {"recon_step", "error"}
        /\ iter = 0
        /\ comp = 1
        /\ pc = "error" => err \in {"ValueError", "ZeroDivisionError"}

C26_Witness ==
    /\ AllYZero
    /\ \E i \in 1..Len(angles) : angles[i][3] # 0
    /\ thresh_range[2] = R(0)
    /\ pc = "error"
    /\ err = "ValueError"
    /\ log[Len(log)].op = "recon_step"

\* ------------------------------------------------- slices of zero weight
\* tilt indices whose weight for component c is 0
ZeroWeight(c) == {i \in 1..Len(ws) : ws[i][c] = R(0)}

\* C27: for a threshold >= 0, in every major iteration the slices whose
\* weight is 0 hold non-finite values (update_weighted_proj_data divided by
\* the zero weight) and none of them is in the stack recon_step passes to the
\* backend: every slice passed is finite and belongs to a nonzero weight.
C27_ZeroWeightNeverPassed ==
    (InReconBackend /\ FLeq(R(0), thresh)) =>
        /\ \A i \in ZeroWeight(comp) : ~IsFinite(ReconInput(comp).sl[i])
        /\ \A k \in 1..Len(sel.a_thresh.sl) : IsFinite(sel.a_thresh.sl[k])
        /\ Len(sel.a_thresh.sl) <= Len(ws) - Cardinality(ZeroWeight(comp))
        /\ Len(sel.angles_thresh) = Len(sel.a_thresh.sl)
        /\ \A k \in 1..Len(sel.angles_thresh) :
              Contribution(sel.angles_thresh[k])[comp] # R(0)

C27_Witness ==
    /\ pc = "gr_run"
    /\ iter >= 1
    /\ thresh = R(0)
    /\ ZeroWeight(comp) # {}
    /\ Len(sel.a_thresh.sl) = Len(ws) - Cardinality(ZeroWeight(comp))

\* ------------------------------------------- threshold of the second pass
\* C28: for every n_full_iter >= 2 the recon_step calls of the second major
\* iteration (the first pass of the loop) use tmax like those of the first,
\* so only later major iterations use another threshold.
C28_SecondIterationRepeatsTmax ==
    n_full_iter >= 2 =>
        \A k \in At("recon_step") :
            log[k].m \in {0, 1} => log[k].t = thresh_range[2]

\* ------------------------------------------------ crop and re-pad shapes
InForwardProjection == pc \in {"fp_alloc", "fp_run", "fp_clear", "decon"}

\* C29: in every major iteration after the first, for a margin n_pad >= 0
\* with 2*n_pad < N (N the side of the reconstructed volume), each sub-volume
\* that is forward-projected has side N - 2*n_pad, and the projected stacks
\* re-padded by n_pad have the row and column counts of the raw phase stack.
C29_CropAndRepadShapes ==
    LET N == A_recon[1].shape[1]
        M == N - 2 * n_pad
    IN  (iter >= 1 /\ InForwardProjection /\ 2 * n_pad < N) =>
            /\ \A c \in 1..3 : sub[c].shape = <<M, M, M>>
            /\ pc = "decon" =>
                  \A c \in 1..3 :
                      LET p == Pad(ScaleProj(projections[c], mesh_params), n_pad)
                      IN  /\ p.rows = phase_projs.rows
                          /\ p.cols = phase_projs.cols

====
